---- MODULE Spec2Model ----
(***************************************************************************)
(* rskill: discovery of Rust projects (ProjectScanner), classification of  *)
(* build artifacts, the name-only folder scan (find_target_folders) and    *)
(* the interactive cleanup controller (InteractiveUI).                      *)
(*                                                                         *)
(* File and directory names are sequences of one-character strings, so that *)
(* str::contains and str::starts_with are computed, not assumed.  A path is *)
(* the sequence of its components.  The filesystem is a function from the  *)
(* paths that exist to their entries.                                       *)
(***************************************************************************)
EXTENDS Integers, Sequences, FiniteSets, TLC

VARIABLES fs, locked, cli,
          projects, selected_index, total_deleted_size, deleted_count,
          pc, last,
          scan_out,
          start_path, ignored_folders, folders,
          artifacts_in, artifacts_out,
          queue, running,
          holders, render_pc, listener_pc, app_state

\* the event loops: the terminal's pending key events and the operations in
\* flight (ui.rs); the holders of the mutex around AppState, the positions
\* of the render loop and of the key listener, and AppState (main.rs)
conc_vars == <<queue, running, holders, render_pc, listener_pc, app_state>>

vars == <<fs, locked, cli,
          projects, selected_index, total_deleted_size, deleted_count,
          pc, last, scan_out, start_path, ignored_folders, folders,
          artifacts_in, artifacts_out, conc_vars>>

----------------------------------------------------------------------------
(* Names *)

N_dot         == <<".">>
N_a           == <<"a">>
N_b           == <<"b">>
N_r           == <<"r">>
N_f           == <<"f">>
N_lnk         == <<"l", "n", "k">>
N_hid         == <<".", "h">>
N_nested      == <<"n", "e", "s", "t", "e", "d">>
N_usr         == <<"u", "s", "r">>
N_git         == <<".", "g", "i", "t">>
N_target      == <<"t", "a", "r", "g", "e", "t">>
N_debug       == <<"d", "e", "b", "u", "g">>
N_release     == <<"r", "e", "l", "e", "a", "s", "e">>
N_incremental == <<"i", "n", "c", "r", "e", "m", "e", "n", "t", "a", "l">>
N_deps        == <<"d", "e", "p", "s">>
N_examples    == <<"e", "x", "a", "m", "p", "l", "e", "s">>
N_tests       == <<"t", "e", "s", "t", "s">>
N_benches     == <<"b", "e", "n", "c", "h", "e", "s">>
N_doc         == <<"d", "o", "c">>
N_src         == <<"s", "r", "c">>
N_main_rs     == <<"m", "a", "i", "n", ".", "r", "s">>
N_lib_rs      == <<"l", "i", "b", ".", "r", "s">>
N_slash       == <<"/">>
N_home        == <<"h", "o", "m", "e">>
N_cargo       == <<".", "c", "a", "r", "g", "o">>
N_registry    == <<"r", "e", "g", "i", "s", "t", "r", "y">>
N_gitcache    == <<"g", "i", "t">>
CargoToml     == <<"C", "a", "r", "g", "o", ".", "t", "o", "m", "l">>
CargoLock     == <<"C", "a", "r", "g", "o", ".", "l", "o", "c", "k">>

\* str::contains: the empty pattern is found in every string
Contains(s, sub) ==
    \E i \in 0..(Len(s) - Len(sub)) : SubSeq(s, i + 1, i + Len(sub)) = sub

\* str::starts_with('.')
StartsWithDot(s) == Len(s) > 0 /\ s[1] = "."

----------------------------------------------------------------------------
(* The filesystem *)

NoPath == <<>>

\* kind: "dir", "file" or "symlink"; readable: read_dir / read_to_string
\* succeeds; meta: DirEntry::metadata succeeds
DirEntry(r)       == [kind |-> "dir", size |-> 0, mtime |-> 0, readable |-> r, meta |-> TRUE, to |-> NoPath]
FileEntry(sz, mt) == [kind |-> "file", size |-> sz, mtime |-> mt, readable |-> TRUE, meta |-> TRUE, to |-> NoPath]
Unreadable(sz, mt) == [kind |-> "file", size |-> sz, mtime |-> mt, readable |-> FALSE, meta |-> TRUE, to |-> NoPath]
NoMetaFile(sz, mt) == [kind |-> "file", size |-> sz, mtime |-> mt, readable |-> TRUE, meta |-> FALSE, to |-> NoPath]
LinkEntry(t)      == [kind |-> "symlink", size |-> 0, mtime |-> 0, readable |-> TRUE, meta |-> TRUE, to |-> t]

Parent(p)   == SubSeq(p, 1, Len(p) - 1)
FileName(p) == p[Len(p)]
IsPrefix(p, q) == Len(p) <= Len(q) /\ SubSeq(q, 1, Len(p)) = p

Exists(f, p) == p \in DOMAIN f

\* the names read_dir lists in directory p
Children(f, p) == {q \in DOMAIN f : Len(q) = Len(p) + 1 /\ IsPrefix(p, q)}

\* the order in which read_dir yields the entries of a directory is the
\* operating system's: one fixed order is taken here
RECURSIVE SetToSeq(_)
SetToSeq(S) ==
    IF S = {} THEN <<>>
    ELSE LET x == CHOOSE y \in S : TRUE IN <<x>> \o SetToSeq(S \ {x})

\* the path with every symbolic link on it resolved (link targets are
\* themselves resolved paths)
RECURSIVE Canonical(_, _)
Canonical(f, p) ==
    IF Len(p) <= 1 THEN p
    ELSE LET q == Append(Canonical(f, Parent(p)), FileName(p))
         IN IF Exists(f, q) /\ f[q].kind = "symlink" THEN f[q].to ELSE q

\* where the entry named p lives: only the directories above it are resolved
LPath(f, p) == IF Len(p) <= 1 THEN p ELSE Append(Canonical(f, Parent(p)), FileName(p))

\* fs::remove_dir_all: the directory and everything below it
RemoveTree(f, p) == [q \in {x \in DOMAIN f : ~IsPrefix(p, x)} |-> f[q]]

----------------------------------------------------------------------------
(* cli.rs *)

\* dirs::home_dir()
HomeDir == <<N_slash, N_home>>

\* str::split(','): the pieces between the commas, empty pieces included
RECURSIVE SplitComma(_, _)
SplitComma(s, cur) ==
    IF s = <<>> THEN <<cur>>
    ELSE IF Head(s) = "," THEN <<cur>> \o SplitComma(Tail(s), <<>>)
    ELSE SplitComma(Tail(s), Append(cur, Head(s)))

\* str::trim: leading and trailing blanks removed
RECURSIVE TrimStart(_)
TrimStart(s) == IF s # <<>> /\ Head(s) = " " THEN TrimStart(Tail(s)) ELSE s
RECURSIVE TrimEnd(_)
TrimEnd(s) == IF s # <<>> /\ s[Len(s)] = " " THEN TrimEnd(SubSeq(s, 1, Len(s) - 1)) ELSE s
Trim(s) == TrimEnd(TrimStart(s))

NoExclude == <<"<none>">>

get_search_directory(c) == IF c.full THEN HomeDir ELSE c.directory

get_excluded_dirs(c) ==
    IF c.exclude = NoExclude THEN <<>>
    ELSE LET parts == SplitComma(c.exclude, <<>>)
         IN [i \in 1..Len(parts) |-> Trim(parts[i])]

----------------------------------------------------------------------------
(* walkdir *)

\* a walk that follows symbolic links
FollowLinksOn == TRUE

\* .follow_links(false)
FollowLinks == FALSE

\* .max_depth(if cli.full { 10 } else { 5 })
MaxDepthFull == 10
MaxDepthDefault == 5
max_depth(c) == IF c.full THEN MaxDepthFull ELSE MaxDepthDefault

\* The entries a walk yields that are Ok (filter_map(|e| e.ok())), in
\* order: the entry itself, then, for a readable directory above the depth
\* limit, its contents.  A symbolic link is an entry that is not entered
\* unless links are followed; the root of the walk is always followed.
RECURSIVE WalkDir(_, _, _, _, _)
RECURSIVE WalkAll(_, _, _, _, _, _)
WalkDir(f, p, depth, maxd, follow) ==
    LET lp == LPath(f, p) IN
    IF ~Exists(f, lp) THEN <<>>
    ELSE LET e  == f[lp]
             tp == IF e.kind = "symlink" /\ (follow \/ depth = 0) THEN e.to ELSE lp
             descend == /\ Exists(f, tp)
                        /\ f[tp].kind = "dir"
                        /\ f[tp].readable
                        /\ depth < maxd
             kids == SetToSeq({FileName(q) : q \in Children(f, tp)})
         IN <<p>> \o (IF descend THEN WalkAll(f, p, kids, depth + 1, maxd, follow) ELSE <<>>)
WalkAll(f, p, kids, depth, maxd, follow) ==
    IF kids = <<>> THEN <<>>
    ELSE WalkDir(f, Append(p, Head(kids)), depth, maxd, follow)
         \o WalkAll(f, p, Tail(kids), depth, maxd, follow)

\* a walk with no max_depth
Unbounded(f) == Cardinality(DOMAIN f)

\* what fs::metadata / Path::is_dir / Path::exists see: links resolved
Meta(f, p) == Canonical(f, p)
is_dir(f, p) == Exists(f, Meta(f, p)) /\ f[Meta(f, p)].kind = "dir"
path_exists(f, p) == Exists(f, Meta(f, p))

----------------------------------------------------------------------------
(* rskiller/src/utils.rs *)

RECURSIVE SumSizes(_, _)
SumSizes(f, ps) ==
    IF ps = <<>> THEN 0
    ELSE (IF f[LPath(f, Head(ps))].kind = "file" THEN f[LPath(f, Head(ps))].size ELSE 0)
         + SumSizes(f, Tail(ps))

\* entry.metadata()? succeeds on every regular file of the walk
RECURSIVE AllMeta(_, _)
AllMeta(f, ps) ==
    IF ps = <<>> THEN TRUE
    ELSE /\ f[LPath(f, Head(ps))].kind = "file" => f[LPath(f, Head(ps))].meta
         /\ AllMeta(f, Tail(ps))

\* calculate_dir_size: the sizes of the regular files the walk yields, or
\* Err when the metadata of one of them cannot be read
calculate_dir_size(f, dir) ==
    LET entries == WalkDir(f, dir, 0, Unbounded(f), FALSE)
    IN [ok |-> AllMeta(f, entries), size |-> SumSizes(f, entries)]

\* a remove_directory that does not look at dry_run
remove_directory_always(f, lk, path, dry_run) ==
    IF path \in DOMAIN f
    THEN IF path \in lk THEN [ok |-> FALSE, fs |-> f]
         ELSE [ok |-> TRUE, fs |-> [q \in {x \in DOMAIN f : ~IsPrefix(path, x)} |-> f[q]]]
    ELSE [ok |-> TRUE, fs |-> f]

\* remove_directory: [ok, fs] after the call
remove_directory(f, lk, path, dry_run) ==
    IF dry_run THEN [ok |-> TRUE, fs |-> f]
    ELSE IF path_exists(f, path)
         THEN IF path \in lk
              THEN [ok |-> FALSE, fs |-> f]
              ELSE [ok |-> TRUE, fs |-> RemoveTree(f, path)]
         ELSE [ok |-> TRUE, fs |-> f]

----------------------------------------------------------------------------
(* rskiller/src/project.rs *)

None == <<"None">>
Some(x) == <<"Some", x>>
IsSome(o) == o # None
Unwrap(o) == o[2]

total_cleanable_size(p) == p.target_size + p.cargo_cache_size

----------------------------------------------------------------------------
(* src/scanner.rs *)

\* an is_excluded_path that looks at the last component only
is_excluded_name(path, excluded_dirs, exclude_hidden) ==
    \/ \E j \in 1..Len(excluded_dirs) : Contains(path[Len(path)], excluded_dirs[j])
    \/ exclude_hidden /\ StartsWithDot(path[Len(path)])

\* is_excluded_path: some component of the path contains an excluded string,
\* or (exclude_hidden) starts with a dot
is_excluded_path(path, excluded_dirs, exclude_hidden) ==
    \E k \in 1..Len(path) :
        \/ \E j \in 1..Len(excluded_dirs) : Contains(path[k], excluded_dirs[j])
        \/ exclude_hidden /\ StartsWithDot(path[k])

\* the match of analyze_build_artifacts on the directory name
ArtifactTypeOf(dir_name) ==
    IF dir_name \in {N_debug, N_release} THEN Some("Target")
    ELSE IF dir_name = N_incremental THEN Some("IncrementalCompilation")
    ELSE IF dir_name = N_deps THEN Some("Dependencies")
    ELSE IF dir_name = N_examples THEN Some("Examples")
    ELSE None

\* WalkDir::new(target_dir).max_depth(3)
ArtifactDepth == 3

RECURSIVE ArtifactsOf(_, _)
ArtifactsOf(f, ps) ==
    IF ps = <<>> THEN <<>>
    ELSE LET path == Head(ps)
             ty   == ArtifactTypeOf(FileName(path))
             sz   == calculate_dir_size(f, path)
         IN (IF is_dir(f, path) /\ IsSome(ty)
             THEN << [path          |-> path,
                      artifact_type |-> Unwrap(ty),
                      size          |-> IF sz.ok THEN sz.size ELSE 0,
                      last_modified |-> Some(f[Meta(f, path)].mtime)] >>
             ELSE <<>>)
            \o ArtifactsOf(f, Tail(ps))

analyze_build_artifacts(f, target_dir) ==
    IF ~path_exists(f, target_dir) THEN <<>>
    ELSE ArtifactsOf(f, WalkDir(f, target_dir, 0, ArtifactDepth, FALSE))

\* calculate_cargo_cache_size: ~/.cargo/registry and ~/.cargo/git
calculate_cargo_cache_size(f) ==
    LET registry_dir == HomeDir \o <<N_cargo, N_registry>>
        git_dir      == HomeDir \o <<N_cargo, N_gitcache>>
        r == IF path_exists(f, registry_dir) THEN calculate_dir_size(f, registry_dir)
             ELSE [ok |-> TRUE, size |-> 0]
        g == IF path_exists(f, git_dir) THEN calculate_dir_size(f, git_dir)
             ELSE [ok |-> TRUE, size |-> 0]
    IN [ok |-> r.ok /\ g.ok, size |-> r.size + g.size]

files_to_check == << <<CargoToml>>, <<CargoLock>>, <<N_src, N_main_rs>>, <<N_src, N_lib_rs>> >>

Max2(a, b) == IF a >= b THEN a ELSE b

RECURSIVE LatestOf(_, _, _, _)
LatestOf(f, project_dir, i, latest) ==
    IF i > Len(files_to_check) THEN latest
    ELSE LET file_path == project_dir \o files_to_check[i]
             next == IF path_exists(f, file_path)
                     THEN (IF IsSome(latest)
                           THEN Some(Max2(Unwrap(latest), f[Meta(f, file_path)].mtime))
                           ELSE Some(f[Meta(f, file_path)].mtime))
                     ELSE latest
         IN LatestOf(f, project_dir, i + 1, next)

get_last_modified_time(f, project_dir) == LatestOf(f, project_dir, 1, None)

\* fs::read_to_string succeeds
CanRead(f, p) == path_exists(f, p) /\ f[Meta(f, p)].kind = "file" /\ f[Meta(f, p)].readable

\* analyze_rust_project: [ok, project].  The text of the manifest is not
\* modelled, so the fields read out of it (name, workspace_root,
\* dependencies_count) are left out of the record.
analyze_rust_project(f, project_dir, c) ==
    LET cargo_toml_path == Append(project_dir, CargoToml)
        cargo_lock_path == Append(project_dir, CargoLock)
        target_dir      == Append(project_dir, c.target)
        target_exists   == path_exists(f, target_dir)
        tsize == IF target_exists THEN calculate_dir_size(f, target_dir)
                 ELSE [ok |-> TRUE, size |-> 0]
        cache == IF c.include_cargo_cache THEN calculate_cargo_cache_size(f)
                 ELSE [ok |-> TRUE, size |-> 0]
    IN [ok |-> CanRead(f, cargo_toml_path) /\ tsize.ok /\ cache.ok,
        project |->
          [path             |-> project_dir,
           target_dir       |-> IF target_exists THEN Some(target_dir) ELSE None,
           target_size      |-> tsize.size,
           last_modified    |-> get_last_modified_time(f, project_dir),
           has_lock_file    |-> path_exists(f, cargo_lock_path),
           build_artifacts  |-> IF target_exists THEN analyze_build_artifacts(f, target_dir)
                                ELSE <<>>,
           cargo_cache_size |-> cache.size]]

\* byte order of the characters that occur in names
AsciiOrder == <<" ", ",", ".", "/", "<", ">", "C",
                "a", "b", "c", "d", "e", "f", "g", "h", "i", "k", "l", "m",
                "n", "o", "p", "r", "s", "t", "u", "x", "y">>
Rank(ch) == CHOOSE i \in 1..Len(AsciiOrder) : AsciiOrder[i] = ch

\* Ord::cmp on sequences, lexicographic: "Less", "Equal" or "Greater"
RECURSIVE CmpStr(_, _)
CmpStr(a, b) ==
    IF a = <<>> /\ b = <<>> THEN "Equal"
    ELSE IF a = <<>> THEN "Less"
    ELSE IF b = <<>> THEN "Greater"
    ELSE IF Rank(Head(a)) < Rank(Head(b)) THEN "Less"
    ELSE IF Rank(Head(a)) > Rank(Head(b)) THEN "Greater"
    ELSE CmpStr(Tail(a), Tail(b))

RECURSIVE CmpPath(_, _)
CmpPath(a, b) ==
    IF a = <<>> /\ b = <<>> THEN "Equal"
    ELSE IF a = <<>> THEN "Less"
    ELSE IF b = <<>> THEN "Greater"
    ELSE IF CmpStr(Head(a), Head(b)) # "Equal" THEN CmpStr(Head(a), Head(b))
    ELSE CmpPath(Tail(a), Tail(b))

CmpInt(a, b) == IF a < b THEN "Less" ELSE IF a > b THEN "Greater" ELSE "Equal"

\* comparators with the operands of the descending keys the other way round
CmpProjectsSwapped(sort_by, a, b) ==
    CASE sort_by = "Size" -> CmpInt(total_cleanable_size(a), total_cleanable_size(b))
      [] sort_by = "Path" -> CmpPath(a.path, b.path)
      [] sort_by = "LastMod" ->
            IF IsSome(a.last_modified) /\ IsSome(b.last_modified)
            THEN CmpInt(Unwrap(a.last_modified), Unwrap(b.last_modified))
            ELSE IF IsSome(a.last_modified) THEN "Greater"
            ELSE IF IsSome(b.last_modified) THEN "Less"
            ELSE "Equal"

\* the comparators of sort_projects
CmpProjects(sort_by, a, b) ==
    CASE sort_by = "Size" -> CmpInt(total_cleanable_size(b), total_cleanable_size(a))
      [] sort_by = "Path" -> CmpPath(a.path, b.path)
      [] sort_by = "LastMod" ->
            IF IsSome(a.last_modified) /\ IsSome(b.last_modified)
            THEN CmpInt(Unwrap(b.last_modified), Unwrap(a.last_modified))
            ELSE IF IsSome(a.last_modified) THEN "Less"
            ELSE IF IsSome(b.last_modified) THEN "Greater"
            ELSE "Equal"

\* slice::sort_by is a stable sort: each element goes before the first
\* element it is Less than
RECURSIVE InsertStable(_, _, _)
InsertStable(sorted, x, sort_by) ==
    IF sorted = <<>> THEN <<x>>
    ELSE IF CmpProjects(sort_by, x, Head(sorted)) = "Less" THEN <<x>> \o sorted
    ELSE <<Head(sorted)>> \o InsertStable(Tail(sorted), x, sort_by)

RECURSIVE SortFrom(_, _, _)
SortFrom(ps, sorted, sort_by) ==
    IF ps = <<>> THEN sorted
    ELSE SortFrom(Tail(ps), InsertStable(sorted, Head(ps), sort_by), sort_by)

sort_projects(ps, sort_by) == SortFrom(ps, <<>>, sort_by)

\* the loop of find_rust_projects over the entries of the walk
RECURSIVE FindLoop(_, _, _, _, _)
FindLoop(f, entries, c, found, processed_paths) ==
    IF entries = <<>> THEN found
    ELSE LET path == Head(entries)
             rest == Tail(entries)
             project_dir == Parent(path)
             res == analyze_rust_project(f, project_dir, c)
         IN IF is_excluded_path(path, get_excluded_dirs(c), c.exclude_hidden)
            THEN FindLoop(f, rest, c, found, processed_paths)
            ELSE IF FileName(path) # CargoToml
            THEN FindLoop(f, rest, c, found, processed_paths)
            ELSE IF project_dir \in processed_paths
            THEN FindLoop(f, rest, c, found, processed_paths)
            ELSE FindLoop(f, rest, c,
                          IF res.ok THEN Append(found, res.project) ELSE found,
                          processed_paths \cup {project_dir})

find_rust_projects(f, search_dir, c) ==
    sort_projects(
        FindLoop(f, WalkDir(f, search_dir, 0, max_depth(c), FollowLinks), c, <<>>, {}),
        c.sort)

\* ProjectScanner::scan: the projects of Ok(projects)
scan(f, c) == find_rust_projects(f, get_search_directory(c), c)

\* task::spawn_blocking(..).await??: the first ? is the JoinError of a task
\* that did not run to its end (joined = FALSE), the second the Err of
\* find_rust_projects, which returns Ok(projects) on every path: the walk's
\* errors are dropped by filter_map(|e| e.ok()) and those of
\* analyze_rust_project by if let Ok
scan_result(f, c, joined) ==
    IF ~joined THEN [ok |-> FALSE, err |-> "join", projects |-> <<>>]
    ELSE [ok |-> TRUE, err |-> "none", projects |-> scan(f, c)]

----------------------------------------------------------------------------
(* src/ui.rs: InteractiveUI *)

\* a deletion that forgets build_artifacts.clear()
CleanedKeepingArtifacts(project) ==
    [project EXCEPT !.target_dir = None, !.target_size = 0]

\* a deletion that forgets target_dir = None
CleanedKeepingPath(project) ==
    [project EXCEPT !.target_size = 0, !.build_artifacts = <<>>]

\* what deletion leaves of a record
Cleaned(project) ==
    [project EXCEPT !.target_dir = None, !.target_size = 0, !.build_artifacts = <<>>]

\* let size_before = project.total_cleanable_size();
SizeBeforeSelected(project) == total_cleanable_size(project)

\* let size_before = project.target_size;
SizeBeforeAll(project) == project.target_size

\* a delete_selected_project that drops the Err of remove_directory
SwallowSelected(ok) == FALSE

\* the Err of remove_directory is returned before anything is updated
PropagateSelected(ok) == ~ok

\* delete_selected_project on the controller state s = [fs, projects,
\* selected_index, total_deleted_size, deleted_count]: the state after the
\* call, and whether it returned Ok
delete_selected_project(s, lk, c) ==
    LET same == [ok |-> TRUE, state |-> s]
        i    == s.selected_index + 1
    IN IF i > Len(s.projects) THEN same
       ELSE IF ~IsSome(s.projects[i].target_dir) THEN same
       ELSE LET project     == s.projects[i]
                size_before == SizeBeforeSelected(project)
                rm == remove_directory(s.fs, lk, Unwrap(project.target_dir), c.dry_run)
            IN IF PropagateSelected(rm.ok) THEN [ok |-> FALSE, state |-> s]
               ELSE IF c.dry_run THEN [ok |-> TRUE, state |-> [s EXCEPT !.fs = rm.fs]]
               ELSE [ok |-> TRUE,
                     state |-> [s EXCEPT !.fs = rm.fs,
                                         !.total_deleted_size = @ + size_before,
                                         !.deleted_count = @ + 1,
                                         !.projects[i] = Cleaned(project)]]

\* a delete_all_projects that goes on after an Err
SwallowAll(ok) == FALSE

\* utils::remove_directory(target_dir, self.cli.dry_run)?  in the loop of
\* delete_all_projects: an Err ends the loop and the call
PropagateAll(ok) == ~ok

\* the for loop of delete_all_projects from record i on: the filesystem and
\* the records after it, the two local accumulators, and the index of the
\* record whose removal failed (0: none)
RECURSIVE DeleteAllLoop(_, _, _, _, _, _, _)
DeleteAllLoop(f, lk, c, ps, i, total_deleted, count_deleted) ==
    IF i > Len(ps)
    THEN [fs |-> f, projects |-> ps, total_deleted |-> total_deleted,
          count_deleted |-> count_deleted, failed_at |-> 0]
    ELSE IF ~IsSome(ps[i].target_dir)
    THEN DeleteAllLoop(f, lk, c, ps, i + 1, total_deleted, count_deleted)
    ELSE LET size_before == SizeBeforeAll(ps[i])
             rm == remove_directory(f, lk, Unwrap(ps[i].target_dir), c.dry_run)
         IN IF PropagateAll(rm.ok)
            THEN [fs |-> rm.fs, projects |-> ps, total_deleted |-> total_deleted,
                  count_deleted |-> count_deleted, failed_at |-> i]
            ELSE IF c.dry_run
            THEN DeleteAllLoop(rm.fs, lk, c, ps, i + 1, total_deleted, count_deleted)
            ELSE DeleteAllLoop(rm.fs, lk, c, [ps EXCEPT ![i] = Cleaned(ps[i])], i + 1,
                               total_deleted + size_before, count_deleted + 1)

\* delete_all_projects: the accumulators are added to the counters only
\* when the loop has run to its end
delete_all_projects(s, lk, c) ==
    LET r == DeleteAllLoop(s.fs, lk, c, s.projects, 1, 0, 0)
    IN IF r.failed_at # 0
       THEN [ok |-> FALSE, failed_at |-> r.failed_at,
             state |-> [s EXCEPT !.fs = r.fs, !.projects = r.projects]]
       ELSE [ok |-> TRUE, failed_at |-> 0,
             state |-> [s EXCEPT !.fs = r.fs, !.projects = r.projects,
                                 !.total_deleted_size = @ + r.total_deleted,
                                 !.deleted_count = @ + r.count_deleted]]

\* a refresh that keeps the cursor
CursorKept(old) == old

\* self.selected_index = 0;
CursorAfterRefresh(old) == 0

\* a refresh that stores the default of a failed scan
refresh_projects_clearing(s, c, joined) ==
    [ok |-> joined,
     state |-> [s EXCEPT !.projects = scan_result(s.fs, c, joined).projects,
                         !.selected_index = 0]]

\* refresh_projects: self.projects = scanner.scan().await?; the Err of the
\* scan is returned before anything is assigned
refresh_projects(s, c, joined) ==
    IF ~joined THEN [ok |-> FALSE, state |-> s]
    ELSE [ok |-> TRUE,
             state |-> [s EXCEPT !.projects = scan_result(s.fs, c, joined).projects,
                                 !.selected_index = CursorAfterRefresh(s.selected_index)]]

\* KeyCode::Up: if self.selected_index > 0
select_previous(s) ==
    IF s.selected_index > 0 THEN [s EXCEPT !.selected_index = @ - 1] ELSE s

\* usize::saturating_sub
saturating_sub(a, b) == IF a >= b THEN a - b ELSE 0

\* if self.selected_index < self.projects.len().saturating_sub(1)
CanSelectNext(s) == s.selected_index < saturating_sub(Len(s.projects), 1)

\* KeyCode::Down
select_next(s) ==
    IF CanSelectNext(s) THEN [s EXCEPT !.selected_index = @ + 1] ELSE s

\* the controller's fields and the filesystem, as one value
Controller ==
    [fs |-> fs, projects |-> projects, selected_index |-> selected_index,
     total_deleted_size |-> total_deleted_size, deleted_count |-> deleted_count]

\* one turn of run_interactive_loop on a key: the handler's result is
\* stored, and an Err leaves the loop (handle_key_event(..).await?)
Handled(op, r, failed_at) ==
    /\ fs' = r.state.fs
    /\ projects' = r.state.projects
    /\ selected_index' = r.state.selected_index
    /\ total_deleted_size' = r.state.total_deleted_size
    /\ deleted_count' = r.state.deleted_count
    /\ pc' = IF r.ok THEN "loop" ELSE "failed"
    /\ last' = [op |-> op, ok |-> r.ok, failed_at |-> failed_at, pre |-> Controller]
    /\ UNCHANGED <<locked, cli, scan_out, start_path, ignored_folders, folders,
                   artifacts_in, artifacts_out, conc_vars>>

KeyUp == /\ pc = "loop"
         /\ Handled("selectPrevious", [ok |-> TRUE, state |-> select_previous(Controller)], 0)

KeyDown == /\ pc = "loop"
           /\ Handled("selectNext", [ok |-> TRUE, state |-> select_next(Controller)], 0)

KeyDelete == /\ pc = "loop"
             /\ Handled("deleteSelected", delete_selected_project(Controller, locked, cli), 0)

KeyDeleteAll ==
    /\ pc = "loop"
    /\ LET r == delete_all_projects(Controller, locked, cli)
       IN Handled("deleteAll", r, r.failed_at)

KeyRefresh == /\ pc = "loop"
              /\ \E joined \in BOOLEAN :
                   Handled("refresh", refresh_projects(Controller, cli, joined), 0)

\* open_selected_project: spawning the platform's opener may fail
KeyOpen == /\ pc = "loop"
           /\ \E spawned \in BOOLEAN :
                Handled("openSelected",
                        [ok |-> spawned \/ selected_index >= Len(projects),
                         state |-> Controller], 0)

KeyQuit == /\ pc = "loop"
           /\ pc' = "exit"
           /\ UNCHANGED <<fs, locked, cli, projects, selected_index, total_deleted_size,
                          deleted_count, last, scan_out, start_path, ignored_folders,
                          folders, artifacts_in, artifacts_out, conc_vars>>

----------------------------------------------------------------------------
(* The controller's specification *)

\* largest size of a file in a modelled tree
MaxFileSize == 2

\* a value for the variables a specification does not use
Unused == <<"unused">>

\* no event loop is part of the specification
NoLoops ==
    /\ queue = Unused
    /\ running = Unused
    /\ holders = Unused
    /\ render_pc = Unused
    /\ listener_pc = Unused
    /\ app_state = Unused

\* a project directory: the manifest and, for size > 0, target/debug/f
ProjectTree(d, size, mt) ==
    (d :> DirEntry(TRUE))
    @@ (Append(d, CargoToml) :> FileEntry(1, mt))
    @@ (IF size = 0 THEN <<>>
        ELSE (Append(d, N_target) :> DirEntry(TRUE))
             @@ (d \o <<N_target, N_debug>> :> DirEntry(TRUE))
             @@ (d \o <<N_target, N_debug, N_f>> :> FileEntry(size, mt)))

\* the global cache: one file in ~/.cargo/registry
CacheTree ==
    (HomeDir :> DirEntry(TRUE))
    @@ (Append(HomeDir, N_cargo) :> DirEntry(TRUE))
    @@ (HomeDir \o <<N_cargo, N_registry>> :> DirEntry(TRUE))
    @@ (HomeDir \o <<N_cargo, N_registry, N_f>> :> FileEntry(1, 1))

UiRoot == <<N_dot>>
UiDirA == <<N_dot, N_a>>
UiDirB == <<N_dot, N_b>>
UiDirN == <<N_dot, N_a, N_nested>>

UiTree(sa, sb, sn) ==
    (UiRoot :> DirEntry(TRUE))
    @@ ProjectTree(UiDirA, sa, 1) @@ ProjectTree(UiDirB, sb, 2) @@ ProjectTree(UiDirN, sn, 3)
    @@ CacheTree

UiTargets(f) == {d \in DOMAIN f : FileName(d) = N_target}

UiCli(dry, cache, sort) ==
    [directory |-> UiRoot, full |-> FALSE, target |-> N_target, sort |-> sort,
     exclude |-> NoExclude, exclude_hidden |-> FALSE, dry_run |-> dry,
     include_cargo_cache |-> cache, delete_all |-> FALSE]

\* InteractiveUI::new, then the first lines of run_interactive_loop
Init ==
    /\ \E sa \in 0..MaxFileSize : fs = UiTree(sa, MaxFileSize, 1)
    /\ \E lk \in SUBSET UiTargets(fs) : Cardinality(lk) <= 1 /\ locked = lk
    /\ \E dry, cache \in BOOLEAN : cli = UiCli(dry, cache, "Size")
    /\ selected_index = 0
    /\ total_deleted_size = 0
    /\ deleted_count = 0
    /\ \E joined \in BOOLEAN :
          /\ projects = scan_result(fs, cli, joined).projects
          /\ pc = IF ~joined THEN "failed"
                  ELSE IF projects = <<>> THEN "exit" ELSE "loop"
          /\ last = [op |-> "start", ok |-> joined, failed_at |-> 0, pre |-> Controller]
    /\ scan_out = Unused
    /\ start_path = Unused
    /\ ignored_folders = Unused
    /\ folders = Unused
    /\ artifacts_in = Unused
    /\ artifacts_out = Unused
    /\ NoLoops

\* another process removes a project (build output included) while the
\* controller waits for a key
ExternalRemove ==
    /\ pc = "loop"
    /\ \E d \in {UiDirA, UiDirB} :
          /\ Exists(fs, d)
          /\ fs' = RemoveTree(fs, d)
    /\ last' = [op |-> "external", ok |-> TRUE, failed_at |-> 0,
                pre |-> [Controller EXCEPT !.fs = fs']]
    /\ UNCHANGED <<locked, cli, projects, selected_index, total_deleted_size,
                   deleted_count, pc, scan_out, start_path, ignored_folders, folders,
                   artifacts_in, artifacts_out, conc_vars>>

Next ==
    \/ KeyUp
    \/ KeyDown
    \/ KeyDelete
    \/ KeyDeleteAll
    \/ KeyRefresh
    \/ KeyOpen
    \/ KeyQuit
    \/ ExternalRemove

Spec == Init /\ [][Next]_vars

----------------------------------------------------------------------------
(* Properties of the controller *)

Pre == last.pre
PreIndex == Pre.selected_index + 1
PreHasSelection == PreIndex <= Len(Pre.projects)
PreSelected == Pre.projects[PreIndex]

\* the record has a build-output path and the directory is on disk in f
HasOutput(f, project) ==
    IsSome(project.target_dir) /\ path_exists(f, Unwrap(project.target_dir))

\* the removal of the record's directory fails (it is there and locked)
RemovalFails(f, project) ==
    HasOutput(f, project) /\ Unwrap(project.target_dir) \in locked

\* C1: after a non-dry-run deleteSelected on a record whose build-output
\* directory exists, the directory is gone, the record's build-output size
\* is 0 and total_deleted_size has grown by exactly the size of what was
\* deleted (the build output), whatever the record's cache size.
C1_DeleteSelectedFreesExactly ==
    (/\ last.op = "deleteSelected"
     /\ last.ok
     /\ ~cli.dry_run
     /\ PreHasSelection
     /\ HasOutput(Pre.fs, PreSelected))
    => /\ ~path_exists(fs, Unwrap(PreSelected.target_dir))
       /\ projects[PreIndex].target_size = 0
       /\ total_deleted_size = Pre.total_deleted_size + PreSelected.target_size

\* C2: in dry-run mode deleteSelected and deleteAll remove nothing from the
\* filesystem, leave total_deleted_size and deleted_count at 0, leave
\* every record unchanged and never return an error.
C2_DryRunChangesNothing ==
    cli.dry_run =>
        /\ total_deleted_size = 0
        /\ deleted_count = 0
        /\ last.op \in {"deleteSelected", "deleteAll"} =>
              /\ last.ok
              /\ fs = Pre.fs
              /\ projects = Pre.projects

C2_Witness ==
    /\ cli.dry_run
    /\ last.op = "deleteAll"
    /\ \E i \in 1..Len(projects) : RemovalFails(fs, projects[i])
    /\ \E i \in 1..Len(projects) : HasOutput(fs, projects[i]) /\ ~RemovalFails(fs, projects[i])

\* C5: when a non-dry-run deleteSelected fails to remove the directory, the
\* call returns the error and has changed nothing: the selected record keeps
\* its path, size and artifacts, no other record changes, and the two
\* counters are as before.
C5_FailedDeleteSelectedChangesNothing ==
    (/\ last.op = "deleteSelected"
     /\ ~cli.dry_run
     /\ PreHasSelection
     /\ RemovalFails(Pre.fs, PreSelected))
    => /\ ~last.ok
       /\ pc = "failed"
       /\ projects = Pre.projects
       /\ total_deleted_size = Pre.total_deleted_size
       /\ deleted_count = Pre.deleted_count

C5_Witness ==
    /\ last.op = "deleteSelected"
    /\ ~last.ok
    /\ ~cli.dry_run
    /\ RemovalFails(fs, projects[selected_index + 1])
    /\ total_deleted_size > 0

\* the first record of the pre-state whose removal fails (0: none)
FirstFailing ==
    IF \E k \in 1..Len(Pre.projects) : RemovalFails(Pre.fs, Pre.projects[k])
    THEN CHOOSE k \in 1..Len(Pre.projects) :
            /\ RemovalFails(Pre.fs, Pre.projects[k])
            /\ \A j \in 1..(k - 1) : ~RemovalFails(Pre.fs, Pre.projects[j])
    ELSE 0

RECURSIVE SelectEach(_, _)
SelectEach(s, i) ==
    IF i > Len(s.projects) THEN s
    ELSE SelectEach(
            delete_selected_project([s EXCEPT !.selected_index = i - 1], locked, cli).state,
            i + 1)

\* C7: a non-dry-run deleteAll that succeeds on every item leaves the
\* records, total_deleted_size and deleted_count in exactly the state that
\* running deleteSelected once on each record reaches.
C7_DeleteAllIsDeleteSelectedOnEach ==
    (/\ last.op = "deleteAll"
     /\ last.ok
     /\ ~cli.dry_run)
    => LET each == SelectEach(Pre, 1)
       IN /\ projects = each.projects
          /\ total_deleted_size = each.total_deleted_size
          /\ deleted_count = each.deleted_count

\* C8: the cursor stays within [0, len-1] whenever the result set is not
\* empty, and selectNext / selectPrevious change nothing on an empty set.
C8_CursorInRange ==
    /\ projects # <<>> => selected_index \in 0..(Len(projects) - 1)
    /\ (last.op \in {"selectNext", "selectPrevious"} /\ Pre.projects = <<>>)
          => Controller = Pre

C8_Witness ==
    /\ last.op = "selectNext"
    /\ projects = <<>>
    /\ deleted_count > 0

C8_WitnessShrunk ==
    /\ last.op = "refresh"
    /\ Pre.selected_index > 0
    /\ Len(projects) <= Pre.selected_index
    /\ projects # <<>>

\* the directories with a manifest on disk
ManifestDirs(f) == {Parent(q) : q \in {x \in DOMAIN f : FileName(x) = CargoToml}}

\* C15: refresh replaces the whole result set with the outcome of a fresh
\* scan (one record for each project now on disk, its build-output path
\* present exactly when the directory is) and sets the cursor to 0, from any
\* state; it leaves total_deleted_size and deleted_count as they were; and
\* when the rescan fails, the result set and the cursor are as before.
C15_RefreshReplacesResultSet ==
    last.op = "refresh" =>
        /\ fs = Pre.fs
        /\ total_deleted_size = Pre.total_deleted_size
        /\ deleted_count = Pre.deleted_count
        /\ IF last.ok
           THEN /\ projects = scan(fs, cli)
                /\ {projects[i].path : i \in 1..Len(projects)} = ManifestDirs(fs)
                /\ \A i \in 1..Len(projects) :
                      IsSome(projects[i].target_dir)
                          <=> Exists(fs, Append(projects[i].path, N_target))
                /\ selected_index = 0
           ELSE /\ projects = Pre.projects
                /\ selected_index = Pre.selected_index

\* a refresh with the cursor away from 0, after deletions and after a
\* project has left the disk
C15_Witness ==
    /\ last.op = "refresh"
    /\ last.ok
    /\ Pre.selected_index > 0
    /\ Len(projects) < Len(Pre.projects)
    /\ deleted_count > 0
    /\ total_deleted_size > 0

\* a refresh whose scan failed, with the cursor away from 0
C15_WitnessFailed ==
    /\ last.op = "refresh"
    /\ ~last.ok
    /\ selected_index > 0
    /\ deleted_count > 0

\* the records a deletion has just cleared of their build-output path
ClearedNow ==
    {i \in 1..Len(Pre.projects) :
        /\ i <= Len(projects)
        /\ IsSome(Pre.projects[i].target_dir)
        /\ ~IsSome(projects[i].target_dir)}

\* the records the operation was to delete: the selected one, or every one
\* up to the first whose removal fails; none in dry-run mode
ToDelete ==
    IF cli.dry_run THEN {}
    ELSE IF last.op = "deleteSelected"
    THEN {i \in 1..Len(Pre.projects) :
            /\ i = PreIndex
            /\ IsSome(Pre.projects[i].target_dir)
            /\ ~RemovalFails(Pre.fs, Pre.projects[i])}
    ELSE {i \in 1..Len(Pre.projects) :
            /\ IsSome(Pre.projects[i].target_dir)
            /\ FirstFailing = 0 \/ i < FirstFailing}

\* the record stays listed as it was but for its build output
KeptInPlace(before, after) ==
    /\ after.path = before.path
    /\ after.last_modified = before.last_modified
    /\ after.has_lock_file = before.has_lock_file
    /\ after.cargo_cache_size = before.cargo_cache_size
    /\ after.target_dir = None
    /\ after.build_artifacts = <<>>
    /\ after.target_size = 0

\* C16 as stated: deleteSelected and deleteAll leave the number and order of
\* the records and the cursor unchanged and every record not deleted
\* unchanged, and a deleted record stays listed with its path cleared, no
\* artifacts, and a total cleanable size of 0.
C16_DeletionInPlace ==
    last.op \in {"deleteSelected", "deleteAll"} =>
        /\ Len(projects) = Len(Pre.projects)
        /\ selected_index = Pre.selected_index
        /\ \A i \in 1..Len(Pre.projects) :
              IF i \in ToDelete
              THEN /\ KeptInPlace(Pre.projects[i], projects[i])
                   /\ projects[i].target_size + projects[i].cargo_cache_size = 0
              ELSE projects[i] = Pre.projects[i]

\* C16 (amended): deleteSelected and deleteAll leave the number and order of
\* the records and the cursor unchanged and every record not deleted
\* unchanged, and a deleted record stays listed with its path cleared, no
\* artifacts, and a build-output size of 0; its cache size is kept, so its
\* total cleanable size is its cache size.
C16_DeletionInPlaceCacheKept ==
    last.op \in {"deleteSelected", "deleteAll"} =>
        /\ Len(projects) = Len(Pre.projects)
        /\ selected_index = Pre.selected_index
        /\ \A i \in 1..Len(Pre.projects) :
              IF i \in ToDelete
              THEN /\ KeptInPlace(Pre.projects[i], projects[i])
                   /\ projects[i].target_size + projects[i].cargo_cache_size
                         = Pre.projects[i].cargo_cache_size
              ELSE projects[i] = Pre.projects[i]

\* a deleteAll that cleared a record with artifacts and a cache size, next
\* to a record it did not reach
C16_Witness ==
    /\ last.op = "deleteAll"
    /\ ~last.ok
    /\ selected_index > 0
    /\ \E i \in ToDelete :
          /\ Pre.projects[i].build_artifacts # <<>>
          /\ Pre.projects[i].cargo_cache_size > 0
    /\ \E j \in 1..Len(projects) : j \notin ToDelete /\ IsSome(projects[j].target_dir)

\* C17: deleteSelected on a record without build-output path changes
\* nothing, and deleteAll passes such records over: no deletion touches the
\* filesystem or the counters for a record already cleared, and
\* deleted_count grows by at most one for each record that loses its path.
C17_DeletionIdempotent ==
    /\ (/\ last.op = "deleteSelected"
        /\ PreHasSelection
        /\ ~IsSome(PreSelected.target_dir))
          => /\ last.ok
             /\ Controller = Pre
    /\ (/\ last.op = "deleteAll"
        /\ \A i \in 1..Len(Pre.projects) : ~IsSome(Pre.projects[i].target_dir))
          => /\ last.ok
             /\ Controller = Pre
    /\ last.op \in {"deleteSelected", "deleteAll"} =>
          /\ deleted_count - Pre.deleted_count <= Cardinality(ClearedNow)
          /\ \A i \in 1..Len(Pre.projects) :
                ~IsSome(Pre.projects[i].target_dir) => projects[i] = Pre.projects[i]
          /\ (\A i \in 1..Len(Pre.projects) : ~HasOutput(Pre.fs, Pre.projects[i]))
                => fs = Pre.fs

\* deleteSelected repeated on a record that a deletion has cleared, while
\* another record still has its build output
C17_Witness ==
    /\ last.op = "deleteSelected"
    /\ ~cli.dry_run
    /\ PreHasSelection
    /\ PreSelected.path = UiDirB
    /\ ~IsSome(PreSelected.target_dir)
    /\ deleted_count > 0
    /\ \E j \in 1..Len(projects) : HasOutput(fs, projects[j])

\* deleteAll after a deleteSelected has cleared one of the records
C17_WitnessDeleteAll ==
    /\ last.op = "deleteAll"
    /\ last.ok
    /\ ~cli.dry_run
    /\ Pre.deleted_count = 1
    /\ deleted_count = Len(projects)
    /\ Len(projects) > 1

RECURSIVE SumTargetSizes(_, _)
SumTargetSizes(ps, S) ==
    IF S = {} THEN 0
    ELSE LET i == CHOOSE x \in S : TRUE
         IN ps[i].target_size + SumTargetSizes(ps, S \ {i})

\* C18: the counters agree with the records cleaned: when not in dry-run
\* mode, every deleteSelected and deleteAll (one stopped by an error
\* included) has counted each record it cleared once in deleted_count and
\* added that record's build-output size to total_deleted_size.
C18_CountersMatchCleanedRecords ==
    (last.op \in {"deleteSelected", "deleteAll"} /\ ~cli.dry_run) =>
        /\ deleted_count = Pre.deleted_count + Cardinality(ClearedNow)
        /\ total_deleted_size
              = Pre.total_deleted_size + SumTargetSizes(Pre.projects, ClearedNow)

----------------------------------------------------------------------------
(* The scanner's specification: scan applied to bounded trees *)

\* a manifest in directory d: absent, a readable file, or a file that
\* read_to_string fails on
Manifest(d, m, mt) ==
    IF m = "file" THEN (Append(d, CargoToml) :> FileEntry(1, mt))
    ELSE IF m = "unreadable" THEN (Append(d, CargoToml) :> Unreadable(1, mt))
    ELSE <<>>

\* size > 0: target/debug/f of that size
Output(d, size) ==
    IF size = 0 THEN <<>>
    ELSE (Append(d, N_target) :> DirEntry(TRUE))
         @@ (d \o <<N_target, N_debug>> :> DirEntry(TRUE))
         @@ (d \o <<N_target, N_debug, N_f>> :> FileEntry(size, 1))

\* root/, root/a/, and optionally root/a/nested/, root/.h/ and the symbolic
\* link root/lnk to one of the directories; the root may be missing, or a
\* directory that cannot be listed
ScanTree(root, t) ==
    IF t.root = "missing" THEN <<>> ELSE
    (root :> DirEntry(t.root = "dir"))
    @@ Manifest(root, t.m_root, 1)
    @@ (Append(root, N_a) :> DirEntry(TRUE))
    @@ Manifest(Append(root, N_a), t.m_a, 2)
    @@ Output(Append(root, N_a), t.size_a)
    @@ (IF t.nested
        THEN (root \o <<N_a, N_nested>> :> DirEntry(TRUE))
             @@ Manifest(root \o <<N_a, N_nested>>, t.m_nested, 3)
             @@ Output(root \o <<N_a, N_nested>>, 1)
        ELSE <<>>)
    @@ (IF t.hidden
        THEN (Append(root, N_hid) :> DirEntry(TRUE))
             @@ Manifest(Append(root, N_hid), "file", 4)
        ELSE <<>>)
    @@ (IF t.link = "a" THEN (Append(root, N_lnk) :> LinkEntry(Append(root, N_a)))
        ELSE IF t.link = "nested" /\ t.nested
        THEN (Append(root, N_lnk) :> LinkEntry(root \o <<N_a, N_nested>>))
        ELSE <<>>)

ScanTrees ==
    {t \in [m_root : {"none", "file"}, m_a : {"none", "file", "unreadable"},
            m_nested : {"none", "file", "unreadable"}, nested : BOOLEAN,
            hidden : BOOLEAN, link : {"none", "a", "nested"}, size_a : 0..MaxFileSize,
            root : {"dir", "unreadable", "missing"}] :
        /\ ~t.nested => t.m_nested = "none" /\ t.link # "nested"
        /\ t.root # "dir" =>
              /\ t.m_root = "none" /\ t.m_a = "file" /\ ~t.nested /\ ~t.hidden
              /\ t.link = "none" /\ t.size_a = 1}

ScanRoots == {<<N_dot>>, <<N_r>>}

\* --exclude values: none, "nested", "est", "toml", "nested,"
ScanExcludes == {NoExclude, N_nested, <<"e", "s", "t">>, <<"t", "o", "m", "l">>,
                 Append(N_nested, ",")}

ScanCli(root, exclude, hidden, sort) ==
    [directory |-> root, full |-> FALSE, target |-> N_target, sort |-> sort,
     exclude |-> exclude, exclude_hidden |-> hidden, dry_run |-> FALSE,
     include_cargo_cache |-> FALSE, delete_all |-> FALSE]

InitScan ==
    /\ \E root \in ScanRoots, t \in ScanTrees, exclude \in ScanExcludes,
          hidden \in BOOLEAN, sort \in {"Size", "Path", "LastMod"} :
          /\ t.root = "missing" => root = <<N_r>>
          /\ fs = ScanTree(root, t)
          /\ cli = ScanCli(root, exclude, hidden, sort)
    /\ pc = "ready"
    /\ scan_out = <<>>
    /\ locked = Unused
    /\ projects = Unused
    /\ selected_index = Unused
    /\ total_deleted_size = Unused
    /\ deleted_count = Unused
    /\ last = Unused
    /\ start_path = Unused
    /\ ignored_folders = Unused
    /\ folders = Unused
    /\ artifacts_in = Unused
    /\ artifacts_out = Unused
    /\ NoLoops

\* let projects = scanner.scan().await?
DoScan ==
    /\ pc = "ready"
    /\ \E joined \in BOOLEAN :
          LET r == scan_result(fs, cli, joined)
          IN /\ scan_out' = r.projects
             /\ pc' = IF r.ok THEN "scanned"
                      ELSE IF r.err = "join" THEN "join_failed" ELSE "failed"
    /\ UNCHANGED <<fs, locked, cli, projects, selected_index, total_deleted_size,
                   deleted_count, last, start_path, ignored_folders, folders,
                   artifacts_in, artifacts_out, conc_vars>>

NextScan == DoScan

SpecScan == InitScan /\ [][NextScan]_vars

\* the walk cannot start: the root is missing or cannot be listed
RootUnwalkable ==
    \/ ~path_exists(fs, cli.directory)
    \/ is_dir(fs, cli.directory) /\ ~fs[Meta(fs, cli.directory)].readable

\* C3: the sequence scan returns holds each distinct canonical project-root
\* path at most once.
C3_CanonicalRootsDistinct ==
    pc = "scanned" =>
        \A i, j \in 1..Len(scan_out) :
            Canonical(fs, scan_out[i].path) = Canonical(fs, scan_out[j].path) => i = j

\* a link to a project that is itself returned, next to another project
C3_Witness ==
    /\ pc = "scanned"
    /\ Len(scan_out) >= 2
    /\ \E l \in DOMAIN fs :
          /\ fs[l].kind = "symlink"
          /\ \E i \in 1..Len(scan_out) : scan_out[i].path = fs[l].to

\* the directory name is excluded by the configuration
NameExcluded(name) ==
    \/ \E j \in 1..Len(get_excluded_dirs(cli)) : Contains(name, get_excluded_dirs(cli)[j])
    \/ cli.exclude_hidden /\ StartsWithDot(name)

ReadableManifest(d) ==
    Exists(fs, Append(d, CargoToml)) /\ fs[Append(d, CargoToml)].readable

\* C4: scan returns no project at or below a directory whose name contains
\* an excluded string or (exclude-hidden) starts with a dot; with manifests
\* at a/ and a/nested/ (and nowhere else) below a root that can be walked
\* and 'nested' excluded, the result is exactly a.
C4_ExcludedSubtreesPruned ==
    pc = "scanned" =>
        /\ \A i \in 1..Len(scan_out) :
              \A k \in 1..Len(scan_out[i].path) : ~NameExcluded(scan_out[i].path[k])
        /\ (/\ cli.exclude = N_nested
            /\ ~cli.exclude_hidden
            /\ ~RootUnwalkable
            /\ {d \in DOMAIN fs : ReadableManifest(d)}
                  = {Append(cli.directory, N_a), cli.directory \o <<N_a, N_nested>>})
           => /\ Len(scan_out) = 1
              /\ scan_out[1].path = Append(cli.directory, N_a)

C4_Witness ==
    /\ pc = "scanned"
    /\ cli.exclude = N_nested
    /\ ~cli.exclude_hidden
    /\ ReadableManifest(Append(cli.directory, N_a))
    /\ ReadableManifest(cli.directory \o <<N_a, N_nested>>)
    /\ ~ReadableManifest(cli.directory)
    /\ \A d \in DOMAIN fs : FileName(d) = N_hid => ~ReadableManifest(d)
    /\ Len(scan_out) = 1

\* the project roots of the records returned
Returned == {scan_out[i].path : i \in 1..Len(scan_out)}

\* C12: a scan whose blocking task ran returns an error exactly when the
\* root cannot be walked at all (missing or unreadable root), and otherwise
\* succeeds: with nothing excluded, the directories returned are those
\* whose manifest can be read, an unreadable manifest dropping only its own
\* project.
C12_FailsExactlyOnUnwalkableRoot ==
    pc \in {"scanned", "failed"} =>
        /\ pc = "failed" <=> RootUnwalkable
        /\ (pc = "scanned" /\ cli.exclude = NoExclude /\ ~cli.exclude_hidden)
              => Returned = {d \in DOMAIN fs : ReadableManifest(d)}

\* what holds of the code: the scan succeeds on every root, an unwalkable
\* one giving the empty result
ScanNeverFails ==
    pc \in {"scanned", "failed"} =>
        /\ pc = "scanned"
        /\ RootUnwalkable => scan_out = <<>>

\* the directory names from the scan root down to d ("." names no
\* directory)
DirNames(d) == {d[k] : k \in 1..Len(d)} \ {N_dot}

\* the excluded substrings: the entries of the list that are not empty
ExcludedSubstrings ==
    {get_excluded_dirs(cli)[j] : j \in 1..Len(get_excluded_dirs(cli))} \ {<<>>}

\* C19: exclusion depends only on directory names: below a root that can be
\* walked, a directory with a readable manifest is returned whenever none of
\* the directory names from the scan root down to it contains an excluded
\* substring or (exclude-hidden) starts with a dot, whatever the excluded
\* list is and also for the root '.'.
C19_ExclusionByDirectoryNamesOnly ==
    (pc = "scanned" /\ ~RootUnwalkable) =>
        \A d \in DOMAIN fs :
            (/\ IsPrefix(cli.directory, d)
             /\ ReadableManifest(d)
             /\ \A name \in DirNames(d) :
                   /\ \A x \in ExcludedSubstrings : ~Contains(name, x)
                   /\ cli.exclude_hidden => ~StartsWithDot(name))
            => d \in Returned

\* what holds of the code: the manifest's own file name and the root's
\* component are tested like directory names
ExclusionByEveryComponent ==
    (pc = "scanned" /\ ~RootUnwalkable) =>
        \A d \in DOMAIN fs :
            (IsPrefix(cli.directory, d) /\ ReadableManifest(d))
            => (d \in Returned
                  <=> \A k \in 1..(Len(d) + 1) :
                        LET name == Append(d, CargoToml)[k]
                        IN /\ \A j \in 1..Len(get_excluded_dirs(cli)) :
                                ~Contains(name, get_excluded_dirs(cli)[j])
                           /\ cli.exclude_hidden => ~StartsWithDot(name))

----------------------------------------------------------------------------
(* src/utils/search.rs: find_target_folders *)

\* const MAX_DEPTH: usize = 10;
MAX_DEPTH == 10

Backslash == "\\"
N_ab == <<"a", Backslash, "b">>

\* path.replace('\\', "/").split('/').last(): a component holds no '/', so
\* the folder name is what follows the last backslash of the last component
RECURSIVE AfterLastBackslash(_, _)
AfterLastBackslash(name, cur) ==
    IF name = <<>> THEN cur
    ELSE IF Head(name) = Backslash THEN AfterLastBackslash(Tail(name), <<>>)
    ELSE AfterLastBackslash(Tail(name), Append(cur, Head(name)))

folder_name_of(path) == AfterLastBackslash(FileName(path), <<>>)

\* a traverse that ignores nothing
IgnoresNothing(ignored, folder_name) == FALSE

\* ignored_folders.contains(&folder_name)
IsIgnored(ignored, folder_name) == \E i \in 1..Len(ignored) : ignored[i] = folder_name

\* calculate_folder_size: the files below path, links and unreadable
\* directories counting nothing; Err when path itself cannot be listed
RECURSIVE FolderSizeOf(_, _)
FolderSizeOf(f, path) ==
    LET kids == SetToSeq(Children(f, Canonical(f, path)))
        SumKids[i \in 0..Len(kids)] ==
            IF i = 0 THEN 0
            ELSE SumKids[i - 1] +
                 (IF f[kids[i]].kind = "file" THEN f[kids[i]].size
                  ELSE IF f[kids[i]].kind = "dir" /\ f[kids[i]].readable
                  THEN FolderSizeOf(f, kids[i])
                  ELSE 0)
    IN SumKids[Len(kids)]

calculate_folder_size(f, path) ==
    IF is_dir(f, path) /\ f[Meta(f, path)].readable THEN Some(FolderSizeOf(f, path)) ELSE None

\* traverse: the folders vector after the call
RECURSIVE traverse(_, _, _, _, _, _)
RECURSIVE TraverseAll(_, _, _, _, _, _, _)
traverse(f, path, target_folder, found, ignored, count) ==
    LET folder_name == folder_name_of(path) IN
    IF IsIgnored(ignored, folder_name) THEN found
    ELSE IF folder_name = target_folder
    THEN Append(found, [path |-> path, size |-> calculate_folder_size(f, path),
                        deleting |-> FALSE])
    ELSE IF count < MAX_DEPTH /\ is_dir(f, path) /\ f[Meta(f, path)].readable
    THEN TraverseAll(f, path, SetToSeq({FileName(q) : q \in Children(f, Meta(f, path))}),
                     target_folder, found, ignored, count + 1)
    ELSE found
TraverseAll(f, path, kids, target_folder, found, ignored, count) ==
    IF kids = <<>> THEN found
    ELSE TraverseAll(f, path, Tail(kids), target_folder,
                     traverse(f, Append(path, Head(kids)), target_folder, found, ignored, count),
                     ignored, count)

find_target_folders(f, start, target_folder, ignored) ==
    traverse(f, start, target_folder, <<>>, ignored, 0)

\* main.rs: the ignored folders on unix
default_ignored_folders ==
    <<N_git, <<"b", "i", "n">>, <<"b", "o", "o", "t">>, <<"d", "e", "v">>,
      <<"e", "t", "c">>, <<"l", "i", "b">>, <<"p", "r", "o", "c">>, <<"s", "y", "s">>, N_usr>>

----------------------------------------------------------------------------
(* The folder scan's specification: find_target_folders on bounded trees *)

\* a directory named target holding one file
TargetAt(d, on) ==
    IF on THEN (Append(d, N_target) :> DirEntry(TRUE))
               @@ (d \o <<N_target, N_f>> :> FileEntry(1, 1))
    ELSE <<>>

\* the directories on the way to start, start itself, and below it the
\* directories a, .git, usr and a\b, each with or without a target
RECURSIVE Ancestors(_)
Ancestors(path) ==
    IF Len(path) = 0 THEN <<>>
    ELSE Ancestors(Parent(path)) @@ (path :> DirEntry(TRUE))

FolderTree(start, t) ==
    Ancestors(start)
    @@ TargetAt(start, t.top)
    @@ (Append(start, N_a) :> DirEntry(TRUE)) @@ TargetAt(Append(start, N_a), t.in_a)
    @@ (Append(start, N_git) :> DirEntry(TRUE)) @@ TargetAt(Append(start, N_git), t.in_git)
    @@ (start \o <<N_a, N_usr>> :> DirEntry(TRUE)) @@ TargetAt(start \o <<N_a, N_usr>>, t.in_usr)
    @@ (Append(start, N_ab) :> DirEntry(TRUE)) @@ TargetAt(Append(start, N_ab), t.in_ab)

FolderTrees == [top : BOOLEAN, in_a : BOOLEAN, in_git : BOOLEAN, in_usr : BOOLEAN,
                in_ab : BOOLEAN]

\* main starts at "."; the function takes any start path
StartPaths == {<<N_dot>>, <<N_usr>>, <<N_usr, N_src>>}

IgnoredLists == {<<>>, <<N_git>>, <<N_git, N_usr>>, <<N_target>>, <<N_ab>>,
                 default_ignored_folders}

InitFolders ==
    /\ \E start \in StartPaths, t \in FolderTrees, ignored \in IgnoredLists :
          /\ fs = FolderTree(start, t)
          /\ start_path = start
          /\ ignored_folders = ignored
    /\ pc = "ready"
    /\ folders = <<>>
    /\ locked = Unused
    /\ cli = Unused
    /\ projects = Unused
    /\ selected_index = Unused
    /\ total_deleted_size = Unused
    /\ deleted_count = Unused
    /\ last = Unused
    /\ scan_out = Unused
    /\ artifacts_in = Unused
    /\ artifacts_out = Unused
    /\ NoLoops

\* folders: find_target_folders(".", "target", &all_ignored_folders)
DoFind ==
    /\ pc = "ready"
    /\ folders' = find_target_folders(fs, start_path, N_target, ignored_folders)
    /\ pc' = "found"
    /\ UNCHANGED <<fs, locked, cli, projects, selected_index, total_deleted_size,
                   deleted_count, last, scan_out, start_path, ignored_folders,
                   artifacts_in, artifacts_out, conc_vars>>

NextFolders == DoFind

SpecFolders == InitFolders /\ [][NextFolders]_vars

\* the name is one of the list
Listed(list, name) == \E i \in 1..Len(list) : list[i] = name

\* C9 as stated: no returned Folder has, anywhere in its path, a component
\* that is one of the ignored names.
C9_NoIgnoredComponent ==
    pc = "found" =>
        \A i \in 1..Len(folders) :
            \A k \in 1..Len(folders[i].path) :
                ~Listed(ignored_folders, folders[i].path[k])

HasBackslash(name) == \E k \in 1..Len(name) : name[k] = Backslash

\* C9 (amended): no returned Folder has, from the last component of the
\* start path downwards, a component that is one of the ignored names free
\* of path separators; a directory with an ignored name is pruned without
\* being added even when its name is the target name.
C9_NoIgnoredComponentBelowStart ==
    pc = "found" =>
        /\ \A i \in 1..Len(folders) :
              \A k \in Len(start_path)..Len(folders[i].path) :
                  \A n \in 1..Len(ignored_folders) :
                      folders[i].path[k] = ignored_folders[n]
                          => HasBackslash(ignored_folders[n])
        /\ Listed(ignored_folders, N_target) => folders = <<>>

C9_Witness ==
    /\ pc = "found"
    /\ Len(start_path) > 1
    /\ Listed(ignored_folders, N_usr)
    /\ Exists(fs, start_path \o <<N_a, N_usr, N_target>>)
    /\ Exists(fs, start_path \o <<N_git, N_target>>)
    /\ Len(folders) >= 2

C9_WitnessTargetIgnored ==
    /\ pc = "found"
    /\ Listed(ignored_folders, N_target)
    /\ Exists(fs, Append(start_path, N_target))

----------------------------------------------------------------------------
(* The classifier's specification: analyze_build_artifacts on bounded
   build-output trees *)

ArtifactRoot == <<N_dot, N_a, N_target>>

SubdirNames == {N_debug, N_release, N_incremental, N_deps, N_examples, N_tests,
                N_benches, N_doc}

RECURSIVE DirsAt(_, _)
DirsAt(d, names) ==
    IF names = {} THEN <<>>
    ELSE LET n == CHOOSE x \in names : TRUE
         IN (Append(d, n) :> DirEntry(TRUE))
            @@ (d \o <<n, N_f>> :> FileEntry(1, 1))
            @@ DirsAt(d, names \ {n})

\* target/ with the subdirectories top, and below target/debug (when it is
\* there) the subdirectories inner
ArtifactTree(top, inner) ==
    Ancestors(ArtifactRoot)
    @@ DirsAt(ArtifactRoot, top)
    @@ (IF N_debug \in top THEN DirsAt(Append(ArtifactRoot, N_debug), inner) ELSE <<>>)

InitArtifacts ==
    /\ \E top \in SUBSET SubdirNames :
       \E inner \in {{}, {N_deps, N_incremental}, {N_tests, N_doc}} :
          /\ inner # {} => N_debug \in top
          /\ fs = ArtifactTree(top, inner)
    /\ artifacts_in = ArtifactRoot
    /\ artifacts_out = <<>>
    /\ pc = "ready"
    /\ locked = Unused
    /\ cli = Unused
    /\ projects = Unused
    /\ selected_index = Unused
    /\ total_deleted_size = Unused
    /\ deleted_count = Unused
    /\ last = Unused
    /\ scan_out = Unused
    /\ start_path = Unused
    /\ ignored_folders = Unused
    /\ folders = Unused
    /\ NoLoops

\* Self::analyze_build_artifacts(&target_dir)?
DoClassify ==
    /\ pc = "ready"
    /\ artifacts_out' = analyze_build_artifacts(fs, artifacts_in)
    /\ pc' = "classified"
    /\ UNCHANGED <<fs, locked, cli, projects, selected_index, total_deleted_size,
                   deleted_count, last, scan_out, start_path, ignored_folders, folders,
                   artifacts_in, conc_vars>>

NextArtifacts == DoClassify

SpecArtifacts == InitArtifacts /\ [][NextArtifacts]_vars

\* the kind the vocabulary gives a directory name: debug/release ->
\* BuildOutput, incremental -> IncrementalCache, deps -> DependencyArtifacts,
\* examples -> ExampleBinaries, tests -> TestBinaries, benches ->
\* BenchmarkBinaries (by the names of ArtifactType)
VocabularyKind(name) ==
    CASE name \in {N_debug, N_release} -> Some("Target")
      [] name = N_incremental -> Some("IncrementalCompilation")
      [] name = N_deps -> Some("Dependencies")
      [] name = N_examples -> Some("Examples")
      [] name = N_tests -> Some("Tests")
      [] name = N_benches -> Some("Benchmarks")
      [] OTHER -> None

\* the subdirectories of the build-output root the classifier looks at
Subdirs ==
    {d \in DOMAIN fs : /\ IsPrefix(artifacts_in, d)
                       /\ Len(d) > Len(artifacts_in)
                       /\ Len(d) <= Len(artifacts_in) + ArtifactDepth
                       /\ fs[d].kind = "dir"}

ReportedAs(d, kind) ==
    \E i \in 1..Len(artifacts_out) :
        artifacts_out[i].path = d /\ artifacts_out[i].artifact_type = kind

Reported(d) == \E i \in 1..Len(artifacts_out) : artifacts_out[i].path = d

\* C10: a subdirectory of the build-output root is reported as an artifact
\* exactly when its name is in the vocabulary, with the vocabulary's kind
\* (tests and benchmarks included); any other name is not reported.
C10_ClassifiedByVocabulary ==
    pc = "classified" =>
        \A d \in Subdirs :
            IF IsSome(VocabularyKind(FileName(d)))
            THEN ReportedAs(d, Unwrap(VocabularyKind(FileName(d))))
            ELSE ~Reported(d)

\* C10 without tests and benchmarks: what the code does
ClassifiedByCodeVocabulary ==
    pc = "classified" =>
        \A d \in Subdirs :
            IF FileName(d) \in {N_tests, N_benches} THEN ~Reported(d)
            ELSE IF IsSome(VocabularyKind(FileName(d)))
            THEN ReportedAs(d, Unwrap(VocabularyKind(FileName(d))))
            ELSE ~Reported(d)

----------------------------------------------------------------------------
(* The sort's specification: sort_projects applied to bounded record lists *)

\* latest modification time of a modelled record
MaxTime == 2

SortPaths == {<<N_dot, N_a>>, <<N_dot, N_b>>, <<N_dot, N_a, N_nested>>}

\* a record as analyze_rust_project builds it, with the given sort keys
SortRecord(path, size, cache, lm) ==
    [path             |-> path,
     target_dir       |-> IF size > 0 THEN Some(Append(path, N_target)) ELSE None,
     target_size      |-> size,
     last_modified    |-> lm,
     has_lock_file    |-> FALSE,
     build_artifacts  |-> <<>>,
     cargo_cache_size |-> cache]

Timestamps == {None} \cup {Some(t) : t \in 1..MaxTime}

\* the lists find_rust_projects can hand to sort_projects: records of
\* distinct project directories (processed_paths), in any order, sharing
\* the one global cache size
SortInputs ==
    {ps \in UNION {[1..n -> [path : SortPaths, size : 0..MaxFileSize, lm : Timestamps]]
                    : n \in 0..Cardinality(SortPaths)} :
        \A i, j \in 1..Len(ps) : ps[i].path = ps[j].path => i = j}

InitSort ==
    /\ \E ps \in SortInputs, cache \in 0..1, sort \in {"Size", "Path", "LastMod"} :
          /\ projects = [i \in 1..Len(ps) |->
                            SortRecord(ps[i].path, ps[i].size, cache, ps[i].lm)]
          /\ cli = ScanCli(<<N_dot>>, NoExclude, FALSE, sort)
    /\ pc = "found"
    /\ scan_out = <<>>
    /\ fs = Unused
    /\ locked = Unused
    /\ selected_index = Unused
    /\ total_deleted_size = Unused
    /\ deleted_count = Unused
    /\ last = Unused
    /\ start_path = Unused
    /\ ignored_folders = Unused
    /\ folders = Unused
    /\ artifacts_in = Unused
    /\ artifacts_out = Unused
    /\ NoLoops

\* Self::sort_projects(&mut projects, &cli.sort, cli.gb); Ok(projects)
DoSort ==
    /\ pc = "found"
    /\ scan_out' = sort_projects(projects, cli.sort)
    /\ pc' = "sorted"
    /\ UNCHANGED <<fs, locked, cli, projects, selected_index, total_deleted_size,
                   deleted_count, last, start_path, ignored_folders, folders,
                   artifacts_in, artifacts_out, conc_vars>>

NextSort == DoSort

SpecSort == InitSort /\ [][NextSort]_vars

\* the two sequences hold the same records, each as often
SameRecords(s, t) ==
    /\ Len(s) = Len(t)
    /\ \A x \in {s[i] : i \in 1..Len(s)} \cup {t[i] : i \in 1..Len(t)} :
          Cardinality({i \in 1..Len(s) : s[i] = x}) = Cardinality({i \in 1..Len(t) : t[i] = x})

\* C11: the sequence scan returns holds the records found, ordered by the
\* requested key: by size, a larger total_cleanable_size never comes after a
\* smaller one; by path, ascending; by last-modified, every record with a
\* timestamp comes before every record without one, and the timestamps
\* descend.
C11_OrderedBySortKey ==
    pc = "sorted" =>
        /\ SameRecords(scan_out, projects)
        /\ \A i, j \in 1..Len(scan_out) :
              i < j =>
                /\ cli.sort = "Size" =>
                      scan_out[i].target_size + scan_out[i].cargo_cache_size
                          >= scan_out[j].target_size + scan_out[j].cargo_cache_size
                /\ cli.sort = "Path" => CmpPath(scan_out[i].path, scan_out[j].path) = "Less"
                /\ cli.sort = "LastMod" =>
                      /\ scan_out[i].last_modified = None => scan_out[j].last_modified = None
                      /\ (scan_out[i].last_modified # None /\ scan_out[j].last_modified # None)
                            => scan_out[i].last_modified[2] >= scan_out[j].last_modified[2]

\* three records with and without timestamps that the sort had to reorder
C11_Witness ==
    /\ pc = "sorted"
    /\ cli.sort = "LastMod"
    /\ Len(scan_out) = 3
    /\ scan_out # projects
    /\ scan_out[1].last_modified # None
    /\ scan_out[2].last_modified # None
    /\ scan_out[1].last_modified # scan_out[2].last_modified
    /\ scan_out[3].last_modified = None

----------------------------------------------------------------------------
(* The size walk's specification: scan applied to trees whose build output
   and global cache hold entries that cannot be read *)

N_g == <<"g">>
N_h == <<"h">>

SizeRoot == <<N_dot>>
SizeDirA == <<N_dot, N_a>>
SizeDirB == <<N_dot, N_b>>
RegistryDir == HomeDir \o <<N_cargo, N_registry>>

\* a/target/f, and optionally a/target/debug (listable or not) holding g,
\* and a file h whose metadata cannot be read, in target or in debug; b with
\* one byte of build output; ~/.cargo/registry/f, and optionally next to it
\* a file h whose metadata cannot be read or an unlistable directory g
SizeTree(t) ==
    (SizeRoot :> DirEntry(TRUE))
    @@ (SizeDirA :> DirEntry(TRUE))
    @@ Manifest(SizeDirA, "file", 1)
    @@ (Append(SizeDirA, N_target) :> DirEntry(TRUE))
    @@ (SizeDirA \o <<N_target, N_f>> :> FileEntry(t.f_size, 1))
    @@ (IF t.debug = "none" THEN <<>>
        ELSE (SizeDirA \o <<N_target, N_debug>> :> DirEntry(t.debug = "dir"))
             @@ (SizeDirA \o <<N_target, N_debug, N_g>> :> FileEntry(1, 1)))
    @@ (IF t.bad = "target" THEN (SizeDirA \o <<N_target, N_h>> :> NoMetaFile(1, 1))
        ELSE IF t.bad = "debug"
        THEN (SizeDirA \o <<N_target, N_debug, N_h>> :> NoMetaFile(1, 1))
        ELSE <<>>)
    @@ (SizeDirB :> DirEntry(TRUE))
    @@ Manifest(SizeDirB, "file", 2)
    @@ Output(SizeDirB, 1)
    @@ CacheTree
    @@ (IF t.cache_bad = "nometa" THEN (Append(RegistryDir, N_h) :> NoMetaFile(1, 1))
        ELSE IF t.cache_bad = "unreadable"
        THEN (Append(RegistryDir, N_g) :> DirEntry(FALSE))
             @@ (RegistryDir \o <<N_g, N_f>> :> FileEntry(1, 1))
        ELSE <<>>)

SizeTrees ==
    {t \in [f_size : 1..MaxFileSize, debug : {"none", "dir", "unreadable"},
            bad : {"none", "target", "debug"},
            cache_bad : {"none", "nometa", "unreadable"}] :
        t.bad = "debug" => t.debug = "dir"}

InitSize ==
    /\ \E t \in SizeTrees, cache \in BOOLEAN :
          /\ fs = SizeTree(t)
          /\ cli = [ScanCli(SizeRoot, NoExclude, FALSE, "Path")
                       EXCEPT !.include_cargo_cache = cache]
    /\ pc = "ready"
    /\ scan_out = <<>>
    /\ locked = Unused
    /\ projects = Unused
    /\ selected_index = Unused
    /\ total_deleted_size = Unused
    /\ deleted_count = Unused
    /\ last = Unused
    /\ start_path = Unused
    /\ ignored_folders = Unused
    /\ folders = Unused
    /\ artifacts_in = Unused
    /\ artifacts_out = Unused
    /\ NoLoops

SpecSize == InitSize /\ [][NextScan]_vars

RECURSIVE SumOver(_, _)
SumOver(f, S) ==
    IF S = {} THEN 0
    ELSE LET q == CHOOSE x \in S : TRUE IN f[q].size + SumOver(f, S \ {q})

\* the files at or below dir whose size can be read: their metadata is
\* there and every directory from dir down to them can be listed
SizedFiles(f, dir) ==
    {q \in DOMAIN f :
        /\ IsPrefix(dir, q)
        /\ f[q].kind = "file"
        /\ f[q].meta
        /\ \A k \in Len(dir)..(Len(q) - 1) : f[SubSeq(q, 1, k)].readable}

\* the bytes a size walk of dir counts when what cannot be read counts zero
RecoveredSize(f, dir) == IF Exists(f, dir) THEN SumOver(f, SizedFiles(f, dir)) ELSE 0

\* some file below dir has no readable metadata
HasUnsizedFile(f, dir) ==
    \E q \in DOMAIN f : IsPrefix(dir, q) /\ f[q].kind = "file" /\ ~f[q].meta

\* C13: a size error on a subtree is recovered locally: every project is
\* still returned by scan, its build-output size is the sum of the files
\* whose size can be read (an unreadable file or directory counting zero),
\* and likewise its cache size.
C13_SizeErrorsRecoveredLocally ==
    pc = "scanned" =>
        /\ Returned = {SizeDirA, SizeDirB}
        /\ \A i \in 1..Len(scan_out) :
              /\ scan_out[i].target_size
                    = RecoveredSize(fs, Append(scan_out[i].path, N_target))
              /\ scan_out[i].cargo_cache_size
                    = IF cli.include_cargo_cache
                      THEN RecoveredSize(fs, RegistryDir)
                           + RecoveredSize(fs, HomeDir \o <<N_cargo, N_gitcache>>)
                      ELSE 0

\* what holds of the code: unlistable directories count zero, but a file
\* whose metadata cannot be read drops the project, and one in the global
\* cache drops every project
SizeErrorDropsProject ==
    pc = "scanned" =>
        LET dropped_all == cli.include_cargo_cache /\ HasUnsizedFile(fs, RegistryDir)
        IN /\ Returned = IF dropped_all THEN {}
                         ELSE {d \in {SizeDirA, SizeDirB} :
                                 ~HasUnsizedFile(fs, Append(d, N_target))}
           /\ \A i \in 1..Len(scan_out) :
                 scan_out[i].target_size
                   = RecoveredSize(fs, Append(scan_out[i].path, N_target))

----------------------------------------------------------------------------
(* The event loops: run_interactive_loop (ui.rs) at the grain of its awaits,
   and the render loop of main.rs next to the key listener that shares
   AppState with it behind a mutex *)

\* most key events waiting in the terminal's queue
MaxKeys == 2

\* every variable but pc and the event loops' own
data_vars == <<fs, locked, cli, projects, selected_index, total_deleted_size,
               deleted_count, last, scan_out, start_path, ignored_folders, folders,
               artifacts_in, artifacts_out>>

Keys == {"Up", "Delete", "DeleteAll", "Refresh", "Quit"}

\* the operation on the tree that handle_key_event starts for a key
OperationOf(key) ==
    CASE key = "Delete"    -> Some("deleteSelected")
      [] key = "DeleteAll" -> Some("deleteAll")
      [] key = "Refresh"   -> Some("scan")
      [] OTHER             -> None

\* a handler that is started and left to run
NotAwaited(op) == FALSE

\* self.handle_key_event(key_event).await?: the loop goes on only when the
\* handler, and the blocking task of a scan inside it, has finished
Awaited(op) == TRUE

\* the user presses a key at any time; crossterm queues it
KeyPressed ==
    /\ pc \in {"poll", "await"}
    /\ Len(queue) < MaxKeys
    /\ \E key \in Keys : queue' = Append(queue, key)
    /\ UNCHANGED <<pc, running, holders, render_pc, listener_pc, app_state, data_vars>>

\* event::poll / event::read, then handle_key_event up to its await
LoopPoll ==
    /\ pc = "poll"
    /\ queue # <<>>
    /\ queue' = Tail(queue)
    /\ LET op == OperationOf(Head(queue))
       IN IF IsSome(op)
          THEN /\ running' = Append(running, Unwrap(op))
               /\ pc' = IF Awaited(Unwrap(op)) THEN "await" ELSE "poll"
          ELSE /\ running' = running
               /\ pc' = IF Head(queue) = "Quit" THEN "exit" ELSE "poll"
    /\ UNCHANGED <<holders, render_pc, listener_pc, app_state, data_vars>>

\* an operation in flight runs to its end; its Err leaves the loop
OperationDone ==
    /\ pc \in {"poll", "await"}
    /\ \E i \in 1..Len(running), ok \in BOOLEAN :
          /\ running' = SubSeq(running, 1, i - 1) \o SubSeq(running, i + 1, Len(running))
          /\ pc' = IF pc = "await" THEN (IF ok THEN "poll" ELSE "failed") ELSE pc
    /\ UNCHANGED <<queue, holders, render_pc, listener_pc, app_state, data_vars>>

\* a lock() that does not wait for the holder
CanLockAlways(h) == TRUE

\* app_state.lock(): returns when no thread holds the mutex
CanLock(h) == h = {}

\* if app_state.lock().unwrap().folders.is_empty()
RenderLockCheck ==
    /\ render_pc = "check"
    /\ CanLock(holders)
    /\ holders' = holders \cup {"render"}
    /\ render_pc' = "checking"
    /\ UNCHANGED <<pc, queue, running, listener_pc, app_state, data_vars>>

RenderCheck ==
    /\ render_pc = "checking"
    /\ holders' = holders \ {"render"}
    /\ render_pc' = IF app_state.folders = <<>> THEN "exit" ELSE "draw"
    /\ UNCHANGED <<pc, queue, running, listener_pc, app_state, data_vars>>

\* terminal.draw(|frame| { let app_state = app_state.lock().unwrap(); ..
RenderLockDraw ==
    /\ render_pc = "draw"
    /\ CanLock(holders)
    /\ holders' = holders \cup {"render"}
    /\ render_pc' = "drawing"
    /\ UNCHANGED <<pc, queue, running, listener_pc, app_state, data_vars>>

\* render_header(); render_list(); the guard is dropped with the closure
RenderDraw ==
    /\ render_pc = "drawing"
    /\ holders' = holders \ {"render"}
    /\ render_pc' = "sleep"
    /\ UNCHANGED <<pc, queue, running, listener_pc, app_state, data_vars>>

\* thread::sleep(Duration::from_millis(12))
RenderSleep ==
    /\ render_pc = "sleep"
    /\ render_pc' = "check"
    /\ UNCHANGED <<pc, queue, running, holders, listener_pc, app_state, data_vars>>

\* the key listener takes the mutex for a key
ListenerLock ==
    /\ listener_pc = "idle"
    /\ app_state.folders # <<>>
    /\ CanLock(holders)
    /\ holders' = holders \cup {"listener"}
    /\ listener_pc' = "locked"
    /\ UNCHANGED <<pc, queue, running, render_pc, app_state, data_vars>>

\* a cursor key: the selection moves, the mutex is released
ListenerMove ==
    /\ listener_pc = "locked"
    /\ app_state' = [app_state EXCEPT
                         !.list_state = (@ + 1) % Len(app_state.folders)]
    /\ holders' = holders \ {"listener"}
    /\ listener_pc' = "idle"
    /\ UNCHANGED <<pc, queue, running, render_pc, data_vars>>

\* the delete key: the selected folder is flagged ..
ListenerMarkFolder ==
    /\ listener_pc = "locked"
    /\ app_state' = [app_state EXCEPT !.folders[app_state.list_state + 1].deleting = TRUE]
    /\ listener_pc' = "marking"
    /\ UNCHANGED <<pc, queue, running, holders, render_pc, data_vars>>

\* .. and the status set to Deleting, then the mutex is released
ListenerMarkStatus ==
    /\ listener_pc = "marking"
    /\ app_state' = [app_state EXCEPT !.status = "Deleting"]
    /\ holders' = holders \ {"listener"}
    /\ listener_pc' = "deleting"
    /\ UNCHANGED <<pc, queue, running, render_pc, data_vars>>

\* the deletion runs to its end outside the mutex
ListenerDelete ==
    /\ listener_pc = "deleting"
    /\ \E i \in 1..Len(app_state.folders) :
          /\ app_state.folders[i].deleting
          /\ fs' = RemoveTree(fs, app_state.folders[i].path)
    /\ listener_pc' = "deleted"
    /\ UNCHANGED <<pc, queue, running, holders, render_pc, app_state,
                   locked, cli, projects, selected_index, total_deleted_size,
                   deleted_count, last, scan_out, start_path, ignored_folders, folders,
                   artifacts_in, artifacts_out>>

ListenerLockDone ==
    /\ listener_pc = "deleted"
    /\ CanLock(holders)
    /\ holders' = holders \cup {"listener"}
    /\ listener_pc' = "removing"
    /\ UNCHANGED <<pc, queue, running, render_pc, app_state, data_vars>>

\* the deleted folder leaves the result set ..
ListenerRemoveFolder ==
    /\ listener_pc = "removing"
    /\ LET kept == SelectSeq(app_state.folders, LAMBDA x : ~x.deleting)
       IN app_state' = [app_state EXCEPT
                            !.folders = kept,
                            !.list_state = IF @ < Len(kept) THEN @ ELSE saturating_sub(Len(kept), 1)]
    /\ listener_pc' = "unmarking"
    /\ UNCHANGED <<pc, queue, running, holders, render_pc, data_vars>>

\* .. and the status goes back to Normal, then the mutex is released
ListenerUnmark ==
    /\ listener_pc = "unmarking"
    /\ app_state' = [app_state EXCEPT !.status = "Normal"]
    /\ holders' = holders \ {"listener"}
    /\ listener_pc' = "idle"
    /\ UNCHANGED <<pc, queue, running, render_pc, data_vars>>

\* the tree main.rs searches: targets in a, .git, a/usr and a\b
LegacyTree ==
    FolderTree(<<N_dot>>, [top |-> FALSE, in_a |-> TRUE, in_git |-> TRUE,
                           in_usr |-> TRUE, in_ab |-> TRUE])

\* run_interactive_loop after its first line (the scan is in flight), or
\* main after list_state_listen
InitLoops ==
    /\ locked = Unused
    /\ cli = Unused
    /\ projects = Unused
    /\ selected_index = Unused
    /\ total_deleted_size = Unused
    /\ deleted_count = Unused
    /\ last = Unused
    /\ scan_out = Unused
    /\ start_path = Unused
    /\ ignored_folders = Unused
    /\ folders = Unused
    /\ artifacts_in = Unused
    /\ artifacts_out = Unused
    /\ \/ /\ pc = "await"
          /\ queue = <<>>
          /\ running = <<"scan">>
          /\ fs = Unused
          /\ holders = {}
          /\ render_pc = "none"
          /\ listener_pc = "none"
          /\ app_state = [folders |-> <<>>, list_state |-> 0, status |-> "Normal"]
       \/ /\ pc = "none"
          /\ queue = <<>>
          /\ running = <<>>
          /\ fs = LegacyTree
          /\ holders = {}
          /\ render_pc = "check"
          /\ listener_pc = "idle"
          /\ app_state = [folders    |-> find_target_folders(LegacyTree, <<N_dot>>, N_target,
                                                             default_ignored_folders),
                          list_state |-> 0,
                          status     |-> "Normal"]

NextLoops ==
    \/ KeyPressed
    \/ LoopPoll
    \/ OperationDone
    \/ RenderLockCheck
    \/ RenderCheck
    \/ RenderLockDraw
    \/ RenderDraw
    \/ RenderSleep
    \/ ListenerLock
    \/ ListenerMove
    \/ ListenerMarkFolder
    \/ ListenerMarkStatus
    \/ ListenerDelete
    \/ ListenerLockDone
    \/ ListenerRemoveFolder
    \/ ListenerUnmark

SpecLoops == InitLoops /\ [][NextLoops]_vars

\* the folders being deleted
Deleting(a) == {i \in 1..Len(a.folders) : a.folders[i].deleting}

\* no update of AppState is half done
WholeRecord(a) == (a.status = "Deleting") <=> (Deleting(a) # {})

C14_WitnessLocked ==
    /\ render_pc = "draw"
    /\ listener_pc = "unmarking"
    /\ ~WholeRecord(app_state)

====
